---- MODULE Spec2Model ----
(***************************************************************************)
(* A model of the Pino_demo logging utilities:                             *)
(*   - the buffering flush worker (helper/compress_transport-stream-       *)
(*     worker.js) and its parent-side handle (transportStream),            *)
(*   - the metadata validator and the wrapped level methods of the         *)
(*     generated loggers (utils/pino_util.js),                             *)
(*   - the level routing of the file targets of createTransportConfig.     *)
(***************************************************************************)
EXTENDS Integers, Sequences, FiniteSets, TLC

\* ------------------------------------------------------------------ bounds

\* Number of log lines the parent hands to transportStream.write.
MaxLogs == 4

\* Number of calls of wrapped level methods.
MaxCalls == 2

\* Number of payloads written to the rotating stream.
MaxSinkWrites == 4

\* Number of rotations after which the interval timer no longer fires.
MaxRotations == 4

\* Number of calls of res.send on one response.
MaxSends == 2

VARIABLES
    \* ---- parent side of the flush worker (transportStream)
    posted,        \* number of write(log) calls made so far
    channel,       \* messages posted to the worker and not yet delivered
    siblings,      \* log lines delivered to the target after the worker target
    callerFailed,  \* TRUE once a write(log) has thrown into its caller
    console,       \* console.error lines printed by the parent
    \* ---- worker thread
    worker,        \* "running" | "erroring" | "crashed" | "exited"
    logBuffer,     \* const logBuffer = []
    flushing,      \* let flushing = false
    timers,        \* number of pending setTimeout(flushLogs, FLUSH_INTERVAL)
    inflight,      \* payloads handed to stream.write whose callback has not run
    sink,          \* characters the stream has written
    \* ---- history
    writes,        \* every payload handed to stream.write, in order
    failed,        \* payloads whose write failed
    atShutdown,    \* logBuffer at the moment the exit hook started
    skipped,       \* a timer found a write in flight and no message came since
    \* ---- loggers (utils/pino_util.js)
    schema,        \* Loggers: the parsed loggers.json
    vcall,         \* the last direct call of the validator and its outcome
    callCount,     \* number of calls of wrapped level methods made so far
    lastCall,      \* the last call of a wrapped level method and its outcome
    pinoCalls,     \* arguments of every invocation of an underlying pino method
    files,         \* destination path -> the entries written to that file
    \* ---- redaction (redact option of createLogger)
    rcall,         \* the last redaction: the entry, the paths and the results
    \* ---- rotating file stream (createStream)
    workerData,    \* the options the stream is created from
    activeSize,    \* bytes in the active file
    backups,       \* rotated files kept, oldest first
    evicted,       \* rotated files removed, in order of removal
    rotations,     \* number of rotations so far
    written,       \* bytes of every payload written so far
    sinkWrites,    \* number of payloads written so far
    \* ---- logger factory (generateLoggers, module initialization)
    config,        \* the document imported from config/loggers.json
    phase,         \* "loading", "ready" (loggers exported) or "exited"
    exitCode,      \* the exit code of the process once it has exited
    loggers,       \* the exported map: loggerKey -> wrapped methods
    output,        \* console lines of the initialization, in order
    fcall,         \* the last call of an exported logger's method
    \* ---- application (clock)
    today,         \* the calendar date (UTC) now
    \* ---- middlewares (responseLogger, errorLogger)
    resLogger,     \* res.logger
    sendOutcomes,  \* how each call of the wrapped res.send ended, in order
    sent,          \* the bodies handed to the original res.send, in order
    errLogger,     \* err.logger
    errInput,      \* err.statusCode and whether err.error is defined
    errOutcome,    \* "pending", or how errorLogger ended
    nextCalls,     \* number of calls of next(err) by errorLogger
    errConsole     \* console.error lines of errorLogger

workerVars ==
    <<posted, channel, siblings, callerFailed, console, worker, logBuffer,
      flushing, timers, inflight, sink, writes, failed, atShutdown, skipped>>

loggerVars == <<schema, vcall, callCount, lastCall, pinoCalls, files>>

redactVars == <<rcall>>

\* The state outside the flush worker and the loggers.
sinkVars == <<workerData, activeSize, backups, evicted, rotations, written, sinkWrites>>

factoryVars == <<config, phase, exitCode, loggers, output, fcall>>

middlewareVars ==
    <<resLogger, sendOutcomes, sent, errLogger, errInput, errOutcome, nextCalls, errConsole>>

appVars == <<today, middlewareVars>>

extraVars == <<redactVars, sinkVars, factoryVars, appVars>>

vars == <<workerVars, loggerVars, extraVars>>

\* ----------------------------------------------------------- flush worker

\* A log line is a string; a string is the sequence of its characters.  The
\* k-th line the parent writes is the one-character string <<k>>.
LogLine(k) == <<k>>

\* Array.prototype.join(""): the concatenation of the strings, in order.
RECURSIVE Join(_)
Join(s) == IF s = <<>> THEN <<>> ELSE Head(s) \o Join(Tail(s))

Contains(str, c) == \E i \in 1..Len(str) : str[i] = c

\* transportStream(...).write never throws: worker.postMessage queues the
\* message, and is a silent no-op once the worker has stopped.
WriteOutcome_ThrowsWhenStopped == IF worker = "running" THEN "returned" ELSE "threw"

WriteOutcome == "returned"

PostMessage(log) == IF worker = "crashed" \/ worker = "exited"
                    THEN channel
                    ELSE Append(channel, log)

\* flushLogs with the batch cut to its first entry (splice(0, 1)).
FlushLogs_FirstOnly ==
    IF flushing \/ Len(logBuffer) = 0
    THEN UNCHANGED <<flushing, logBuffer, inflight, writes>>
    ELSE /\ flushing' = TRUE
         /\ logBuffer' = Tail(logBuffer)
         /\ inflight' = Append(inflight, Head(logBuffer))
         /\ writes' = Append(writes, Head(logBuffer))

\* flushLogs without the re-entrancy guard.
FlushLogs_NoGuard ==
    IF Len(logBuffer) = 0
    THEN UNCHANGED <<flushing, logBuffer, inflight, writes>>
    ELSE /\ flushing' = TRUE
         /\ logBuffer' = <<>>
         /\ inflight' = Append(inflight, Join(logBuffer))
         /\ writes' = Append(writes, Join(logBuffer))

\* flushLogs reading the buffer without emptying it (slice for splice).
FlushLogs_NoSplice ==
    IF flushing \/ Len(logBuffer) = 0
    THEN UNCHANGED <<flushing, logBuffer, inflight, writes>>
    ELSE /\ flushing' = TRUE
         /\ logBuffer' = logBuffer
         /\ inflight' = Append(inflight, Join(logBuffer))
         /\ writes' = Append(writes, Join(logBuffer))

\* flushLogs without the test of logBuffer.length.
FlushLogs_WritesEmpty ==
    IF flushing
    THEN UNCHANGED <<flushing, logBuffer, inflight, writes>>
    ELSE /\ flushing' = TRUE
         /\ logBuffer' = <<>>
         /\ inflight' = Append(inflight, Join(logBuffer))
         /\ writes' = Append(writes, Join(logBuffer))

\* const flushLogs = () => { ... }
FlushLogs ==
    IF flushing \/ Len(logBuffer) = 0
    THEN UNCHANGED <<flushing, logBuffer, inflight, writes>>
    ELSE /\ flushing' = TRUE
         /\ logBuffer' = <<>>
         /\ inflight' = Append(inflight, Join(logBuffer))
         /\ writes' = Append(writes, Join(logBuffer))

\* The multi-target dispatcher hands one line to the worker target's write
\* and then to the target configured after it.
Dispatch ==
    /\ posted < MaxLogs
    /\ posted' = posted + 1
    /\ LET log == LogLine(posted + 1)
       IN  IF WriteOutcome = "threw"
           THEN /\ callerFailed' = TRUE
                /\ UNCHANGED <<channel, siblings>>
           ELSE /\ channel' = PostMessage(log)
                /\ siblings' = Append(siblings, log)
                /\ UNCHANGED callerFailed
    /\ UNCHANGED <<console, worker, logBuffer, flushing, timers, inflight,
                   sink, writes, failed, atShutdown, skipped>>

\* The message handler dropping the entry while a write is in flight.
OnMessage_DropsWhileFlushing ==
    /\ worker = "running"
    /\ channel # <<>>
    /\ channel' = Tail(channel)
    /\ logBuffer' = IF flushing THEN logBuffer ELSE Append(logBuffer, Head(channel))
    /\ timers' = IF ~flushing THEN timers + 1 ELSE timers
    /\ skipped' = FALSE
    /\ UNCHANGED <<posted, siblings, callerFailed, console, worker, flushing,
                   inflight, sink, writes, failed, atShutdown>>

\* parentPort.on("message", (log) => { ... })
OnMessage ==
    /\ worker = "running"
    /\ channel # <<>>
    /\ channel' = Tail(channel)
    /\ logBuffer' = Append(logBuffer, Head(channel))
    /\ timers' = IF ~flushing THEN timers + 1 ELSE timers
    /\ skipped' = FALSE
    /\ UNCHANGED <<posted, siblings, callerFailed, console, worker, flushing,
                   inflight, sink, writes, failed, atShutdown>>

\* A timer armed by setTimeout(flushLogs, FLUSH_INTERVAL) fires.
TimerFire ==
    /\ worker = "running"
    /\ timers > 0
    /\ timers' = timers - 1
    /\ FlushLogs
    /\ skipped' = (skipped \/ flushing)
    /\ UNCHANGED <<posted, channel, siblings, callerFailed, console, worker,
                   sink, failed, atShutdown>>

\* stream.write(logs, () => { flushing = false }) completes.
WriteDone ==
    /\ worker = "running"
    /\ inflight # <<>>
    /\ sink' = sink \o Head(inflight)
    /\ inflight' = Tail(inflight)
    /\ flushing' = FALSE
    /\ UNCHANGED <<posted, channel, siblings, callerFailed, console, worker,
                   logBuffer, timers, writes, failed, atShutdown, skipped>>

\* stream.write fails.  The callback ignores its error argument and clears
\* the flag; nothing is printed and nothing is written again.  The stream
\* may also emit 'error', for which the worker registers no listener.
WriteFail(emitsError) ==
    /\ worker = "running"
    /\ inflight # <<>>
    /\ inflight' = Tail(inflight)
    /\ failed' = Append(failed, Head(inflight))
    /\ flushing' = FALSE
    /\ worker' = IF emitsError THEN "erroring" ELSE "running"
    /\ UNCHANGED <<posted, channel, siblings, callerFailed, console, sink,
                   logBuffer, timers, writes, atShutdown, skipped>>

\* process.on("exit", flushLogs): the hook starts at most one write and the
\* thread stops; pending timers never fire.
ExitHook ==
    /\ atShutdown' = logBuffer
    /\ FlushLogs
    /\ UNCHANGED <<posted, channel, siblings, callerFailed, sink, timers, failed, skipped>>

\* The unhandled 'error' event ends the worker thread: the parent's
\* worker.on("error") and worker.on("exit") handlers print to the console.
Crash ==
    /\ worker = "erroring"
    /\ worker' = "crashed"
    /\ console' = console \o <<"Worker encountered an error", "Worker stopped with exit code 1">>
    /\ ExitHook

\* The worker thread exits with code 0.
Exit ==
    /\ worker = "running"
    /\ worker' = "exited"
    /\ UNCHANGED console
    /\ ExitHook

\* A write still outstanding when the thread stopped: its callback never
\* runs, and the bytes may or may not have reached the file.
Abandon(landed) ==
    /\ worker \in {"crashed", "exited"}
    /\ inflight # <<>>
    /\ inflight' = Tail(inflight)
    /\ sink' = IF landed THEN sink \o Head(inflight) ELSE sink
    /\ UNCHANGED <<posted, channel, siblings, callerFailed, console, worker,
                   logBuffer, flushing, timers, writes, failed, atShutdown, skipped>>

InitWorker ==
    /\ posted = 0
    /\ channel = <<>>
    /\ siblings = <<>>
    /\ callerFailed = FALSE
    /\ console = <<>>
    /\ worker = "running"
    /\ logBuffer = <<>>
    /\ flushing = FALSE
    /\ timers = 0
    /\ inflight = <<>>
    /\ sink = <<>>
    /\ writes = <<>>
    /\ failed = <<>>
    /\ atShutdown = <<>>
    /\ skipped = FALSE


\* ---------------------------------------------------------------- loggers

\* const methods = ["info", "warn", "error", "debug", "fatal", "trace"]
Methods == {"info", "warn", "error", "debug", "fatal", "trace"}

\* pino.levels.values
LevelVal == [trace |-> 10, debug |-> 20, info |-> 30, warn |-> 40, error |-> 50, fatal |-> 60]

\* Field names used by the schemas and the metadata objects.
FieldNames == {"code", "context", "userId"}

\* loggers.json documents the loggers are generated from.
SchemaA ==
    [systemLogger |->
        [category |-> "system",
         required |-> [info  |-> <<"code", "context">>,
                       warn  |-> <<"code", "context">>,
                       error |-> <<"code", "context">>,
                       debug |-> <<>>]],
     usageLogger |->
        [category |-> "usage",
         required |-> [error |-> <<"userId">>]],
     authLogger |->
        [category |-> "authentication"]]

SchemaB ==
    [systemLogger |->
        [category |-> "system",
         required |-> [debug |-> <<"code">>,
                       trace |-> <<"code">>,
                       fatal |-> <<"context", "code">>]],
     validationLogger |->
        [category |-> "validation",
         required |-> [info |-> <<"userId", "code", "context">>]]]

Schemas == {SchemaA, SchemaB}

\* Logger keys callers use; "auditLogger" is in no schema.
LoggerKeys == {"systemLogger", "usageLogger", "authLogger", "validationLogger", "auditLogger"}

\* JavaScript values passed as metadata: kind is what typeof and truthiness
\* depend on, keys the property names the `in` operator finds.
Value(kind, keys) == [kind |-> kind, keys |-> keys]

MetadataValues ==
    {Value(k, {}) : k \in {"undefined", "null", "string", "emptyString", "array"}}
        \cup {Value("object", ks) : ks \in SUBSET FieldNames}

CallMetadata ==
    {Value("string", {}), Value("object", {}),
     Value("object", {"userId"}), Value("object", {"code", "context"})}

\* typeof v
Typeof(v) ==
    CASE v.kind = "undefined" -> "undefined"
      [] v.kind \in {"string", "emptyString"} -> "string"
      [] OTHER -> "object"

\* !v
Falsy(v) == v.kind \in {"undefined", "null", "emptyString"}

\* field in v
HasProperty(v, field) == field \in v.keys

\* Array.prototype.join(", ")
RECURSIVE JoinComma(_)
JoinComma(names) ==
    IF names = <<>> THEN <<>>
    ELSE IF Len(names) = 1 THEN names
    ELSE <<Head(names), ", ">> \o JoinComma(Tail(names))

Returned == [threw |-> FALSE, message |-> <<>>]

Thrown(message) == [threw |-> TRUE, message |-> message]

\* schema[loggerKey]?.["required"]?.[method] || []
RequiredFields(loggerKey, method, sch) ==
    IF /\ loggerKey \in DOMAIN sch
       /\ "required" \in DOMAIN sch[loggerKey]
       /\ method \in DOMAIN sch[loggerKey].required
    THEN sch[loggerKey].required[method]
    ELSE <<>>

\* validateMetadata reporting the whole required list for an object.
ValidateMetadata_NamesAll(loggerKey, method, sch, metadata) ==
    LET requiredFields == RequiredFields(loggerKey, method, sch)
        missingFields == SelectSeq(requiredFields, LAMBDA field : ~HasProperty(metadata, field))
    IN  IF Len(missingFields) > 0
        THEN Thrown(<<"Missing required fields for ", loggerKey, ".", method, ": ">>
                        \o JoinComma(requiredFields))
        ELSE Returned

\* validateMetadata letting every non-object through.
ValidateMetadata_SkipsNonObject(loggerKey, method, sch, metadata) ==
    LET requiredFields == RequiredFields(loggerKey, method, sch)
    IN  IF Falsy(metadata) \/ Typeof(metadata) # "object"
        THEN Returned
        ELSE LET missingFields ==
                     SelectSeq(requiredFields, LAMBDA field : ~HasProperty(metadata, field))
             IN  IF Len(missingFields) > 0
                 THEN Thrown(<<"Missing required fields for ", loggerKey, ".", method, ": ">>
                                 \o JoinComma(missingFields))
                 ELSE Returned

\* validateMetadata rejecting every non-object.
ValidateMetadata_RejectsNonObject(loggerKey, method, sch, metadata) ==
    LET requiredFields == RequiredFields(loggerKey, method, sch)
    IN  IF Falsy(metadata) \/ Typeof(metadata) # "object"
        THEN Thrown(<<"Missing required metadata for ", loggerKey, ".", method,
                      ". Required fields: ">> \o JoinComma(requiredFields))
        ELSE LET missingFields ==
                     SelectSeq(requiredFields, LAMBDA field : ~HasProperty(metadata, field))
             IN  IF Len(missingFields) > 0
                 THEN Thrown(<<"Missing required fields for ", loggerKey, ".", method, ": ">>
                                 \o JoinComma(missingFields))
                 ELSE Returned

\* const validateMetadata = (loggerKey, method, schema, metadata) => { ... }
ValidateMetadata(loggerKey, method, sch, metadata) ==
    LET requiredFields == RequiredFields(loggerKey, method, sch)
    IN  IF Falsy(metadata) \/ Typeof(metadata) # "object"
        THEN IF Len(requiredFields) > 0
             THEN Thrown(<<"Missing required metadata for ", loggerKey, ".", method,
                           ". Required fields: ">> \o JoinComma(requiredFields))
             ELSE Returned
        ELSE LET missingFields ==
                     SelectSeq(requiredFields, LAMBDA field : ~HasProperty(metadata, field))
             IN  IF Len(missingFields) > 0
                 THEN Thrown(<<"Missing required fields for ", loggerKey, ".", method, ": ">>
                                 \o JoinComma(missingFields))
                 ELSE Returned

\* const validateFields = (loggerKey, method, schema, obj) => { ... }
\* The filter callback, which reads `field in obj`, runs once per required
\* field: never when the list is empty.
ValidateFields(loggerKey, method, sch, obj) ==
    LET requiredFields == RequiredFields(loggerKey, method, sch)
    IN  IF (Typeof(obj) # "object" \/ Falsy(obj)) /\ Len(requiredFields) > 0
        THEN Thrown(<<"Missing required fields for ", loggerKey, ".", method, ": ">>
                        \o JoinComma(requiredFields))
        ELSE LET missingFields ==
                     SelectSeq(requiredFields, LAMBDA field : ~HasProperty(obj, field))
             IN  IF Len(missingFields) > 0
                 THEN Thrown(<<"Missing required fields for ", loggerKey, ".", method, ": ">>
                                 \o JoinComma(missingFields))
                 ELSE Returned

\* validateMetadata emptying the required list it has checked
\* (requiredFields.splice(0) in place of filter).
ArgumentsAfter_DrainsRequired(loggerKey, method, sch, metadata) ==
    [schema |-> IF /\ loggerKey \in DOMAIN sch
                   /\ "required" \in DOMAIN sch[loggerKey]
                   /\ method \in DOMAIN sch[loggerKey].required
                THEN [sch EXCEPT ![loggerKey].required[method] = <<>>]
                ELSE sch,
     metadata |-> metadata]

\* The arguments of validateMetadata when it returns or throws: it reads
\* schema[loggerKey]?.required?.[method] and `field in metadata`, builds
\* missingFields with filter (a new array) and assigns to no property.
ArgumentsAfter(loggerKey, method, sch, metadata) ==
    [schema |-> sch, metadata |-> metadata]

\* Two calls of validateMetadata in a row with the same arguments.
ValidateTwice(loggerKey, method, metadata) ==
    /\ LET first == ValidateMetadata(loggerKey, method, schema, metadata)
           after == ArgumentsAfter(loggerKey, method, schema, metadata)
           second == ValidateMetadata(loggerKey, method, after.schema, after.metadata)
           final == ArgumentsAfter(loggerKey, method, after.schema, after.metadata)
       IN  /\ schema' = final.schema
           /\ vcall' = [called |-> TRUE, loggerKey |-> loggerKey, method |-> method,
                        metadata |-> metadata, schemaBefore |-> schema,
                        first |-> first, second |-> second,
                        metadataAfter |-> final.metadata]
    /\ UNCHANGED <<workerVars, callCount, lastCall, pinoCalls, files, extraVars>>

\* A direct call of the validators.
Validate(loggerKey, method, metadata) ==
    /\ vcall' = [called |-> TRUE, loggerKey |-> loggerKey, method |-> method,
                 metadata |-> metadata,
                 out |-> ValidateMetadata(loggerKey, method, schema, metadata),
                 outFields |-> ValidateFields(loggerKey, method, schema, metadata)]
    /\ UNCHANGED <<workerVars, schema, callCount, lastCall, pinoCalls, files, extraVars>>

\* A destination path by its components:
\* ./logs/<category>/<directory>/<name>-<date>.log
Destination(category, directory, name, date) ==
    <<"./logs/", category, "/", directory, "/", name, "-", date, ".log">>

\* File targets whose directory is the level name.
FileTargets_LevelDirs(category, date) ==
    << [target |-> "pino/file", level |-> "error",
        destination |-> Destination(category, "error", "error", date)],
       [target |-> "pino/file", level |-> "warn",
        destination |-> Destination(category, "warn", "warn", date)],
       [target |-> "pino/file", level |-> "info",
        destination |-> Destination(category, "info", "info", date)] >>

\* The file targets of createTransportConfig(category), in order; `date` is
\* the day the configuration was built.
FileTargets(category, date) ==
    << [target |-> "pino/file", level |-> "error",
        destination |-> Destination(category, "errors", "error", date)],
       [target |-> "pino/file", level |-> "warn",
        destination |-> Destination(category, "warnings", "warn", date)],
       [target |-> "pino/file", level |-> "info",
        destination |-> Destination(category, "info", "info", date)] >>

\* A target that takes only the entries of its own level.
Admits_OwnLevelOnly(target, method) == target.level = method

\* A target takes the entries at or above its level.
Admits(target, method) == LevelVal[target.level] <= LevelVal[method]

\* level: "debug" of createLogger: the logger itself drops what is below.
LoggerEnabled(method) == LevelVal[method] >= LevelVal["debug"]

\* The day on which the loggers were generated.
CreatedOn == "2024-01-01"

Destinations(sch) ==
    {FileTargets(sch[k].category, CreatedOn)[i].destination : k \in DOMAIN sch, i \in 1..3}

\* The underlying pino method: one entry to every file target that admits it.
PinoLog(loggerKey, method, metadata, id) ==
    LET targets == FileTargets(schema[loggerKey].category, CreatedOn)
        entry == [id |-> id, level |-> method, fields |-> metadata.keys]
        admitted == {targets[i].destination :
                        i \in {j \in 1..Len(targets) :
                                  LoggerEnabled(method) /\ Admits(targets[j], method)}}
    IN  [d \in DOMAIN files |-> IF d \in admitted THEN Append(files[d], entry) ELSE files[d]]

\* The wrapper calling the original method before it validates.
WrapLoggerMethod_CallsFirst(loggerKey, method, metadata) ==
    LET v == ValidateMetadata(loggerKey, method, schema, metadata)
    IN  [threw |-> v.threw, message |-> v.message,
         invocations |-> <<[loggerKey |-> loggerKey, method |-> method, metadata |-> metadata]>>]

\* The wrapper validating only the levels the logger has enabled.
WrapLoggerMethod_EnabledOnly(loggerKey, method, metadata) ==
    LET v == IF LoggerEnabled(method)
             THEN ValidateMetadata(loggerKey, method, schema, metadata)
             ELSE Returned
    IN  [threw |-> v.threw, message |-> v.message,
         invocations |-> IF v.threw THEN <<>>
                         ELSE <<[loggerKey |-> loggerKey, method |-> method,
                                 metadata |-> metadata]>>]

\* wrapLoggerMethod: validate, then call the original method with the same
\* arguments; a throw of the validator leaves the wrapper at once.
WrapLoggerMethod(loggerKey, method, metadata) ==
    LET v == ValidateMetadata(loggerKey, method, schema, metadata)
    IN  [threw |-> v.threw, message |-> v.message,
         invocations |-> IF v.threw THEN <<>>
                         ELSE <<[loggerKey |-> loggerKey, method |-> method,
                                 metadata |-> metadata]>>]

\* loggers[loggerKey][method](metadata, msg)
LogCall(loggerKey, method, metadata) ==
    /\ callCount < MaxCalls
    /\ loggerKey \in DOMAIN schema
    /\ callCount' = callCount + 1
    /\ LET r == WrapLoggerMethod(loggerKey, method, metadata)
       IN  /\ lastCall' = [loggerKey |-> loggerKey, method |-> method, metadata |-> metadata,
                           threw |-> r.threw, message |-> r.message]
           /\ pinoCalls' = pinoCalls \o r.invocations
           /\ files' = IF r.invocations = <<>> THEN files
                       ELSE PinoLog(loggerKey, method, metadata, Len(pinoCalls) + 1)
    /\ UNCHANGED <<workerVars, schema, vcall, extraVars>>

NoCall == [called |-> FALSE]

\* No logger module is loaded.
NoLoggers ==
    /\ schema = <<>>
    /\ vcall = NoCall
    /\ callCount = 0
    /\ lastCall = NoCall
    /\ pinoCalls = <<>>
    /\ files = <<>>

\* import Loggers from "../config/loggers.json"; loggers = generateLoggers()
LoadSchema ==
    /\ schema \in Schemas
    /\ vcall = NoCall
    /\ callCount = 0
    /\ lastCall = NoCall
    /\ pinoCalls = <<>>
    /\ files = [d \in Destinations(schema) |-> <<>>]


\* --------------------------------------------------------------- redaction

\* A logged value: a scalar (a string) or an object (keys to values).
Scalar(text) == [isObject |-> FALSE, text |-> text]

Obj(members) == [isObject |-> TRUE, members |-> members]

\* Marks a key an object does not have.
Absent == [absent |-> TRUE]

\* The object with the members of `given` that are not Absent.
ObjOf(given) ==
    Obj([k \in {x \in DOMAIN given : given[x] # Absent} |-> given[k]])

UserValues ==
    {Absent, Scalar("u1")}
        \cup {ObjOf([userId |-> a, password |-> b]) :
                a \in {Absent, Scalar("42")},
                b \in {Absent, Scalar("1234"), Scalar("[Redacted]")}}

\* The merging objects handed to a pino method.
Entries ==
    {ObjOf([code |-> c, secretKey |-> k, user |-> u]) :
        c \in {Absent, Scalar("USER_DATA_ACCESS")},
        k \in {Absent, Scalar("cscdcsdwq3453"), Scalar("[Redacted]")},
        u \in UserValues}

\* redactFields arrays: each path is the sequence of its dot-separated keys.
PathLists ==
    { <<>>,
      << <<"secretKey">> >>,
      << <<"user", "password">> >>,
      << <<"secretKey">>, <<"user", "password">> >>,
      << <<"user">>, <<"user", "password">> >>,
      << <<"user", "password">>, <<"user">> >>,
      << <<"token">>, <<"user", "ssn">> >>,
      << <<"code", "text">>, <<"secretKey">> >> }

\* A censor that wraps the value it hides.
Censor_Wraps(value) == Obj([masked |-> value])

\* censor: "[Redacted]"
Censor(value) == Scalar("[Redacted]")

\* One path applied to a value: the key the path ends at is replaced when
\* it is there; a path that leaves the object is a no-op.
RECURSIVE RedactPath(_, _)
RedactPath(value, path) ==
    IF path = <<>> THEN Censor(value)
    ELSE IF value.isObject /\ Head(path) \in DOMAIN value.members
         THEN Obj([value.members EXCEPT ![Head(path)] = RedactPath(@, Tail(path))])
         ELSE value

RECURSIVE RedactAll(_, _)
RedactAll(value, paths) ==
    IF paths = <<>> THEN value
    ELSE RedactAll(RedactPath(value, Head(paths)), Tail(paths))

\* Redaction that sets every configured path, present or not.
RECURSIVE SetPath(_, _)
SetPath(value, path) ==
    IF path = <<>> THEN Censor(value)
    ELSE LET members == IF value.isObject THEN value.members ELSE <<>>
             old == IF Head(path) \in DOMAIN members THEN members[Head(path)] ELSE Obj(<<>>)
         IN  Obj([k \in DOMAIN members \cup {Head(path)} |->
                    IF k = Head(path) THEN SetPath(old, Tail(path)) ELSE members[k]])

RECURSIVE Redact_SetsAbsent(_, _)
Redact_SetsAbsent(entry, paths) ==
    IF paths = <<>> THEN entry
    ELSE Redact_SetsAbsent(SetPath(entry, Head(paths)), Tail(paths))

\* redact: { paths: redactFields, censor: "[Redacted]" }
Redact(entry, paths) == RedactAll(entry, paths)

\* An entry is redacted, and the result is redacted again.
Redaction(entry, paths) ==
    /\ rcall' = [called |-> TRUE, entry |-> entry, paths |-> paths,
                 once |-> Redact(entry, paths),
                 twice |-> Redact(Redact(entry, paths), paths)]
    /\ UNCHANGED <<workerVars, loggerVars, sinkVars, factoryVars, appVars>>


\* ----------------------------------------------------- rotating file stream

\* An option that is not given (undefined) is 0, which is falsy.
Undefined == 0

\* size: size || "1000B"
DefaultSize == 1000

\* Options the stream is created from: { size, limit } of workerData.
WorkerDataValues == [size : {Undefined, 500}, limit : {Undefined, 1, 2}]

\* Byte lengths of the payloads written.
PayloadSizes == {300, 600, 1200}

\* The options without maxFiles.
StreamOptions_NoMaxFiles(options) ==
    [size |-> IF options.size # Undefined THEN options.size ELSE DefaultSize,
     compress |-> "gzip",
     maxFiles |-> Undefined]

\* The options without the default size.
StreamOptions_NoDefaultSize(options) ==
    [size |-> options.size,
     compress |-> "gzip",
     maxFiles |-> options.limit]

\* createStream(file, { size: size || "1000B", compress: compress || "gzip",
\*                      path: folder, maxFiles: limit })
StreamOptions(options) ==
    [size |-> IF options.size # Undefined THEN options.size ELSE DefaultSize,
     compress |-> "gzip",
     maxFiles |-> options.limit]

\* The backups kept of `kept` under maxFiles: the oldest go first.
RECURSIVE Retained(_, _)
Retained(kept, maxFiles) ==
    IF maxFiles = Undefined \/ Len(kept) <= maxFiles THEN kept
    ELSE Retained(Tail(kept), maxFiles)

\* The active file of `bytes` bytes is closed, compressed into the next
\* backup, and a fresh active file is opened; backups over maxFiles go.
Rotate(bytes) ==
    LET opts == StreamOptions(workerData)
        all == Append(backups, [rotation |-> rotations + 1,
                                compressed |-> opts.compress = "gzip",
                                bytes |-> bytes])
        kept == Retained(all, opts.maxFiles)
    IN  /\ rotations' = rotations + 1
        /\ backups' = kept
        /\ evicted' = evicted \o SubSeq(all, 1, Len(all) - Len(kept))
        /\ activeSize' = 0

\* stream.write(payload): the payload is appended to the active file, which
\* is rotated once it has reached the size option.
StreamWrite(bytes) ==
    /\ sinkWrites < MaxSinkWrites
    /\ sinkWrites' = sinkWrites + 1
    /\ written' = written + bytes
    /\ LET opts == StreamOptions(workerData)
       IN  IF opts.size # Undefined /\ activeSize + bytes >= opts.size
           THEN Rotate(activeSize + bytes)
           ELSE /\ activeSize' = activeSize + bytes
                /\ UNCHANGED <<backups, evicted, rotations>>
    /\ UNCHANGED <<workerVars, loggerVars, redactVars, factoryVars, appVars, workerData>>

\* interval: interval || "10m": the interval timer rotates the active file.
IntervalRotate ==
    /\ rotations < MaxRotations
    /\ Rotate(activeSize)
    /\ UNCHANGED <<workerVars, loggerVars, redactVars, factoryVars, appVars,
                   workerData, written, sinkWrites>>

\* No stream is open.
NoStream ==
    /\ workerData = [size |-> Undefined, limit |-> Undefined]
    /\ activeSize = 0
    /\ backups = <<>>
    /\ evicted = <<>>
    /\ rotations = 0
    /\ written = 0
    /\ sinkWrites = 0

\* const stream = createStream(file, { ... })
CreateStream ==
    /\ workerData \in WorkerDataValues
    /\ activeSize = 0
    /\ backups = <<>>
    /\ evicted = <<>>
    /\ rotations = 0
    /\ written = 0
    /\ sinkWrites = 0


\* ------------------------------------------------------------ logger factory

\* const logsCategory = { SYSTEM: "system", ... }
LogsCategory == {"system", "authentication", "validation", "usage"}

\* Keys of the entries of loggers.json; JSON allows the empty key.
ConfigKeys == {"systemLogger", "usageLogger", ""}

\* Values of the entries of loggers.json.
EntryValues ==
    {[kind |-> "object", category |-> "system", required |-> [info |-> <<"code">>]],
     [kind |-> "object", category |-> "usage"],
     [kind |-> "object", category |-> "billing"],
     [kind |-> "object", category |-> ""],
     [kind |-> "object"],
     [kind |-> "array"],
     [kind |-> "null"],
     [kind |-> "string"]}

\* Sequences of entries with distinct keys, in document order.
EntryLists ==
    {es \in UNION {[1..n -> [key : ConfigKeys, value : EntryValues]] : n \in 0..Cardinality(ConfigKeys)} :
        \A i, j \in 1..Len(es) : es[i].key = es[j].key => i = j}

\* The documents loggers.json can hold, and the file being absent.
Configs ==
    {[kind |-> k, entries |-> <<>>] : k \in {"missing", "null", "number", "string", "array"}}
        \cup {[kind |-> "object", entries |-> es] : es \in EntryLists}

\* value.category is falsy: not there, or the empty string.
NoCategory(value) == "category" \notin DOMAIN value \/ value.category = ""

\* The first entry validateLoggerConfig rejects, 0 when there is none.
\* typeof key is always "string" for the keys of an object.
RECURSIVE FirstInvalid(_, _)
FirstInvalid(entries, i) ==
    IF i > Len(entries) THEN 0
    ELSE IF \/ entries[i].value.kind \in {"string", "null"}
            \/ NoCategory(entries[i].value)
         THEN i
         ELSE FirstInvalid(entries, i + 1)

\* validateLoggerConfig checking the document only, not its entries.
ValidateLoggerConfig_TopLevelOnly(cfg) ==
    IF cfg.kind # "object"
    THEN Thrown(<<"Invalid or missing loggers.json configuration.">>)
    ELSE Returned

\* const validateLoggerConfig = (config) => { ... }
\* typeof null is "object": value.category of a null entry is a TypeError.
ValidateLoggerConfig(cfg) ==
    IF cfg.kind # "object"
    THEN Thrown(<<"Invalid or missing loggers.json configuration.">>)
    ELSE LET i == FirstInvalid(cfg.entries, 1)
         IN  IF i = 0 THEN Returned
             ELSE IF cfg.entries[i].value.kind = "null"
                  THEN Thrown(<<"TypeError: Cannot read properties of null">>)
                  ELSE Thrown(<<"Invalid logger configuration for \"", cfg.entries[i].key, "\".">>)

\* wrapLogger binding every method to the info level.
WrapLogger_AllInfo(loggerKey) ==
    [method \in Methods |-> [loggerKey |-> loggerKey, method |-> "info"]]

\* const wrapLogger = (logger, loggerKey) => { ... }: each of the six
\* methods becomes wrapLoggerMethod(logger[method], loggerKey, method).
WrapLogger(loggerKey) ==
    [method \in Methods |-> [loggerKey |-> loggerKey, method |-> method]]

\* if (!loggerKey || !loggerConfig || !loggerConfig?.category)
Skipped(entry) ==
    \/ entry.key = ""
    \/ entry.value.kind = "null"
    \/ NoCategory(entry.value)

\* const generateLoggers = () => { ... }
GenerateLoggers(cfg) ==
    LET validated == ValidateLoggerConfig(cfg)
        made == {i \in 1..Len(cfg.entries) : ~Skipped(cfg.entries[i])}
    IN  IF validated.threw
        THEN [threw |-> TRUE, loggers |-> <<>>, lines |-> <<"error: Error generating loggers">>]
        ELSE [threw |-> FALSE,
              loggers |-> [loggerKey \in {cfg.entries[i].key : i \in made} |-> WrapLogger(loggerKey)],
              lines |-> [i \in 1..Len(SelectSeq(cfg.entries, Skipped)) |->
                            "warn: Skipping invalid logger configuration"]]

\* The evaluation of the module: import Loggers, let loggers = {}; try { ... }
\* catch { console.error; process.exit(1) }; export { loggers }.
\* A failed import ends the process before the module body runs.
Initialize ==
    /\ phase = "loading"
    /\ IF config.kind = "missing"
       THEN /\ phase' = "exited"
            /\ exitCode' = 1
            /\ output' = <<"uncaught: Cannot find module">>
            /\ UNCHANGED loggers
       ELSE IF config.kind = "null"
       THEN /\ phase' = "exited"
            /\ exitCode' = 1
            /\ output' = <<"error: Failed to initialize loggers">>
            /\ UNCHANGED loggers
       ELSE LET empty == IF config.kind = "number" \/ config = [kind |-> "object", entries |-> <<>>]
                         THEN <<"log: Loggers are not initiated">>
                         ELSE <<>>
                generated == GenerateLoggers(config)
            IN  IF generated.threw
                THEN /\ phase' = "exited"
                     /\ exitCode' = 1
                     /\ output' = empty \o generated.lines
                                      \o <<"error: Failed to initialize loggers">>
                     /\ UNCHANGED loggers
                ELSE /\ phase' = "ready"
                     /\ loggers' = generated.loggers
                     /\ output' = empty \o generated.lines
                     /\ UNCHANGED exitCode
    /\ UNCHANGED <<workerVars, loggerVars, redactVars, sinkVars, appVars, config, fcall>>

\* The entries of the document as the schema validateMetadata reads.
SchemaOf(cfg) ==
    [loggerKey \in {cfg.entries[i].key : i \in 1..Len(cfg.entries)} |->
        (CHOOSE e \in {cfg.entries[i] : i \in 1..Len(cfg.entries)} : e.key = loggerKey).value]

\* loggers[loggerKey][method](metadata): the wrapped method validates the
\* metadata for the key and the level it was wrapped with.
FactoryCall(loggerKey, method, metadata) ==
    /\ phase = "ready"
    /\ loggerKey \in DOMAIN loggers
    /\ LET wrapped == loggers[loggerKey][method]
       IN  fcall' = [called |-> TRUE, loggerKey |-> loggerKey, method |-> method,
                     metadata |-> metadata,
                     outcome |-> ValidateMetadata(wrapped.loggerKey, wrapped.method,
                                                  SchemaOf(config), metadata)]
    /\ UNCHANGED <<workerVars, loggerVars, redactVars, sinkVars, appVars,
                   config, phase, exitCode, loggers, output>>

\* The module has not been evaluated.
NoFactory ==
    /\ config = [kind |-> "object", entries |-> <<>>]
    /\ phase = "loading"
    /\ exitCode = 0
    /\ loggers = <<>>
    /\ output = <<>>
    /\ fcall = NoCall

\* import Loggers from "../config/loggers.json"
ImportLoggers ==
    /\ config \in Configs
    /\ phase = "loading"
    /\ exitCode = 0
    /\ loggers = <<>>
    /\ output = <<>>
    /\ fcall = NoCall

\* Nothing outside the flush worker and the loggers has acted.
\* The day after the loggers were generated.
NextDay == "2024-01-02"

\* Midnight (UTC) passes: new Date() now gives the next day.  The targets
\* of the loggers were built at initialization and are not rebuilt.
DayChange ==
    /\ today = CreatedOn
    /\ today' = NextDay
    /\ UNCHANGED <<workerVars, loggerVars, redactVars, sinkVars, factoryVars, middlewareVars>>

\* ------------------------------------------------------------- middlewares

\* A property that is not there, and the value null.
NotSet == [set |-> FALSE]

Null == [null |-> TRUE]

\* A logger descriptor { category, message, ...loggerData }: the category
\* and the names of the properties of loggerData.
Descriptor(category, keys) == [category |-> category, keys |-> keys]

\* Values of res.logger and err.logger.
LoggerValues ==
    {NotSet, Null}
        \cup {Descriptor(c, ks) : c \in {"system", "usage", "audit"},
                                  ks \in {{}, {"code", "context"}}}

\* !value
IsFalsy(value) == value \in {NotSet, Null}

\* const logCategory = { [logsCategory.SYSTEM]: loggers.systemLogger, ... }
LogCategory ==
    [system |-> "systemLogger", authentication |-> "authLogger",
     validation |-> "validationLogger", usage |-> "usageLogger"]

\* logCategory[category]?.[method]: the wrapped method, when the category is
\* one of the four and its logger was generated.
HasLogMethod(category) ==
    /\ category \in DOMAIN LogCategory
    /\ LogCategory[category] \in DOMAIN schema

\* logMethod(loggerData, message)
LogMethod(category, method, keys) ==
    WrapLoggerMethod(LogCategory[category], method, Value("object", keys))

\* The entry of a call is appended to the files of its targets.
Logged(category, method, keys) ==
    LET r == LogMethod(category, method, keys)
    IN  /\ pinoCalls' = pinoCalls \o r.invocations
        /\ files' = PinoLog(LogCategory[category], method, Value("object", keys),
                            Len(pinoCalls) + 1)

\* res.send = function (body) { ... } of responseLogger (part_004).
Send ==
    /\ Len(sendOutcomes) < MaxSends
    /\ LET body == Len(sendOutcomes) + 1
       IN  IF IsFalsy(resLogger)
           THEN /\ sent' = Append(sent, body)
                /\ sendOutcomes' = Append(sendOutcomes, "returned")
                /\ UNCHANGED <<resLogger, pinoCalls, files>>
           ELSE IF ~HasLogMethod(resLogger.category)
           THEN /\ resLogger' = Null
                /\ sent' = Append(sent, body)
                /\ sendOutcomes' = Append(sendOutcomes, "returned")
                /\ UNCHANGED <<pinoCalls, files>>
           ELSE IF LogMethod(resLogger.category, "info", resLogger.keys).threw
           THEN /\ sendOutcomes' = Append(sendOutcomes, "threw")
                /\ UNCHANGED <<resLogger, sent, pinoCalls, files>>
           ELSE /\ Logged(resLogger.category, "info", resLogger.keys)
                /\ resLogger' = Null
                /\ sent' = Append(sent, body)
                /\ sendOutcomes' = Append(sendOutcomes, "returned")
    /\ UNCHANGED <<workerVars, schema, vcall, callCount, lastCall, redactVars, sinkVars,
                   factoryVars, today, errLogger, errInput, errOutcome, nextCalls, errConsole>>

\* isWarning ? logger?.warn : logger?.error
ErrorMethod == IF errInput.statusCode = 400 THEN "warn" ELSE "error"

\* errorLogger of middleware/error.middleware.js: the whole body is in a
\* try whose catch prints and returns.  JSON.parse(JSON.stringify(undefined))
\* throws; so does the call of a method that is undefined.
ErrorLogger ==
    /\ errOutcome = "pending"
    /\ LET keys == errLogger.keys \cup {"error"}
           caught == /\ errOutcome' = "caught"
                     /\ errConsole' = Append(errConsole, "Error logging failed")
                     /\ UNCHANGED <<errLogger, nextCalls, pinoCalls, files>>
           passed == /\ errOutcome' = "passed"
                     /\ errLogger' = Null
                     /\ nextCalls' = nextCalls + 1
                     /\ UNCHANGED errConsole
       IN  IF IsFalsy(errLogger)
           THEN passed /\ UNCHANGED <<pinoCalls, files>>
           ELSE IF ~errInput.hasError
           THEN caught
           ELSE IF errLogger.category \notin DOMAIN LogCategory
           THEN passed /\ UNCHANGED <<pinoCalls, files>>
           ELSE IF ~HasLogMethod(errLogger.category)
           THEN caught
           ELSE IF LogMethod(errLogger.category, ErrorMethod, keys).threw
           THEN caught
           ELSE passed /\ Logged(errLogger.category, ErrorMethod, keys)
    /\ UNCHANGED <<workerVars, schema, vcall, callCount, lastCall, redactVars, sinkVars,
                   factoryVars, today, resLogger, sendOutcomes, sent, errInput>>

\* errorLogger of part_003: no try; an error without a descriptor goes
\* straight to next(err); a throw of the log method leaves the function.
ErrorLoggerPart003 ==
    /\ errOutcome = "pending"
    /\ IF IsFalsy(errLogger)
       THEN /\ errOutcome' = "passed"
            /\ nextCalls' = nextCalls + 1
            /\ UNCHANGED <<errLogger, pinoCalls, files>>
       ELSE LET keys == errLogger.keys \cup {"error"}
                passed == /\ errOutcome' = "passed"
                          /\ errLogger' = Null
                          /\ nextCalls' = nextCalls + 1
            IN  IF ~HasLogMethod(errLogger.category)
                THEN passed /\ UNCHANGED <<pinoCalls, files>>
                ELSE IF LogMethod(errLogger.category, ErrorMethod, keys).threw
                THEN /\ errOutcome' = "threw"
                     /\ UNCHANGED <<errLogger, nextCalls, pinoCalls, files>>
                ELSE passed /\ Logged(errLogger.category, ErrorMethod, keys)
    /\ UNCHANGED <<workerVars, schema, vcall, callCount, lastCall, redactVars, sinkVars,
                   factoryVars, today, resLogger, sendOutcomes, sent, errInput, errConsole>>

\* No request is being served.
NoRequest ==
    /\ resLogger = NotSet
    /\ sendOutcomes = <<>>
    /\ sent = <<>>
    /\ errLogger = NotSet
    /\ errInput = [statusCode |-> 500, hasError |-> TRUE]
    /\ errOutcome = "pending"
    /\ nextCalls = 0
    /\ errConsole = <<>>

\* A handler has set res.logger, or has passed an error to next(err).
NewRequest ==
    /\ resLogger \in LoggerValues
    /\ sendOutcomes = <<>>
    /\ sent = <<>>
    /\ errLogger \in LoggerValues
    /\ errInput \in [statusCode : {400, 500}, hasError : BOOLEAN]
    /\ errOutcome = "pending"
    /\ nextCalls = 0
    /\ errConsole = <<>>

\* The application has done nothing since the loggers were generated.
NoApp == today = CreatedOn /\ NoRequest

NoExtras == rcall = NoCall /\ NoStream /\ NoFactory /\ NoApp

Init == InitWorker /\ NoLoggers /\ NoExtras

Next ==
    \/ Dispatch /\ UNCHANGED <<loggerVars, extraVars>>
    \/ OnMessage /\ UNCHANGED <<loggerVars, extraVars>>
    \/ TimerFire /\ UNCHANGED <<loggerVars, extraVars>>
    \/ WriteDone /\ UNCHANGED <<loggerVars, extraVars>>
    \/ \E emitsError \in BOOLEAN : WriteFail(emitsError) /\ UNCHANGED <<loggerVars, extraVars>>
    \/ Crash /\ UNCHANGED <<loggerVars, extraVars>>
    \/ Exit /\ UNCHANGED <<loggerVars, extraVars>>
    \/ \E landed \in BOOLEAN : Abandon(landed) /\ UNCHANGED <<loggerVars, extraVars>>

Spec == Init /\ [][Next]_vars

\* The validator applied to every input.
ValidatorInit == InitWorker /\ LoadSchema /\ NoExtras

ValidatorNext ==
    \E loggerKey \in LoggerKeys, method \in Methods, metadata \in MetadataValues :
        Validate(loggerKey, method, metadata)

ValidatorSpec == ValidatorInit /\ [][ValidatorNext]_vars

\* The generated loggers in use.
LoggerInit == InitWorker /\ LoadSchema /\ NoExtras

LoggerNext ==
    \E loggerKey \in LoggerKeys, method \in Methods, metadata \in CallMetadata :
        LogCall(loggerKey, method, metadata)

LoggerSpec == LoggerInit /\ [][LoggerNext]_vars

\* Redaction applied to every entry and path list.
RedactInit == InitWorker /\ NoLoggers /\ NoExtras

\* The rotating stream written to.
SinkInit == InitWorker /\ NoLoggers /\ rcall = NoCall /\ NoFactory /\ NoApp /\ CreateStream

\* The flush worker while it runs, every write completing: a posted message
\* is delivered, an armed timer fires and a started write completes; the
\* parent is free to stop writing.
LiveOnMessage == OnMessage /\ UNCHANGED <<loggerVars, extraVars>>

LiveTimerFire == TimerFire /\ UNCHANGED <<loggerVars, extraVars>>

LiveWriteDone == WriteDone /\ UNCHANGED <<loggerVars, extraVars>>

LiveNext ==
    \/ Dispatch /\ UNCHANGED <<loggerVars, extraVars>>
    \/ LiveOnMessage
    \/ LiveTimerFire
    \/ LiveWriteDone

LiveSpec ==
    /\ Init
    /\ [][LiveNext]_vars
    /\ WF_vars(LiveOnMessage)
    /\ WF_vars(LiveTimerFire)
    /\ WF_vars(LiveWriteDone)

\* The module that generates and exports the loggers.
FactoryInit == InitWorker /\ NoLoggers /\ rcall = NoCall /\ NoStream /\ NoApp /\ ImportLoggers

\* validateMetadata called repeatedly on one schema.
PureInit == InitWorker /\ LoadSchema /\ NoExtras

PureNext ==
    \E loggerKey \in LoggerKeys, method \in Methods, metadata \in MetadataValues :
        ValidateTwice(loggerKey, method, metadata)

PureSpec == PureInit /\ [][PureNext]_vars

\* The middlewares serving a request.
MiddlewareInit ==
    /\ InitWorker
    /\ LoadSchema
    /\ rcall = NoCall
    /\ NoStream
    /\ NoFactory
    /\ today = CreatedOn
    /\ NewRequest

MiddlewareNext ==
    \/ Send
    \/ ErrorLogger
    \/ ErrorLoggerPart003

MiddlewareSpec == MiddlewareInit /\ [][MiddlewareNext]_vars

\* The loggers in use over a change of the calendar date.
DailyInit == InitWorker /\ LoadSchema /\ NoExtras

DailyNext ==
    \/ \E loggerKey \in LoggerKeys, method \in Methods, metadata \in CallMetadata :
           LogCall(loggerKey, method, metadata)
    \/ DayChange

DailySpec == DailyInit /\ [][DailyNext]_vars

FactoryNext ==
    \/ Initialize
    \/ \E loggerKey \in ConfigKeys, method \in Methods, metadata \in CallMetadata :
           FactoryCall(loggerKey, method, metadata)

FactorySpec == FactoryInit /\ [][FactoryNext]_vars

SinkNext ==
    \/ \E bytes \in PayloadSizes : StreamWrite(bytes)
    \/ IntervalRotate

SinkSpec == SinkInit /\ [][SinkNext]_vars

RedactNext ==
    \E entry \in Entries, paths \in PathLists : Redaction(entry, paths)

RedactSpec == RedactInit /\ [][RedactNext]_vars

\* ------------------------------------------------------- flush worker claims

\* Number of log lines that have reached the worker thread.
Received == Len(logBuffer) + Len(Join(writes))

\* C1: the messages enqueued before a timer finds the worker idle are written
\* by that one timer as one payload, their concatenation in enqueue order;
\* a timer that finds the buffer empty or a write in flight writes nothing,
\* so when the first payload holds every line enqueued there is one write.
C1_BatchedFlush ==
    [][ /\ (timers' = timers - 1) =>
              IF ~flushing /\ logBuffer # <<>>
              THEN /\ writes' = Append(writes, Join(logBuffer))
                   /\ inflight' = Append(inflight, Join(logBuffer))
                   /\ logBuffer' = <<>>
              ELSE writes' = writes /\ inflight' = inflight
        /\ (writes' # <<>> /\ Len(writes'[1]) = posted') => Len(writes') = 1
      ]_vars

\* Two lines were batched into the first payload, in order, and every timer
\* they armed has fired without a second write.
C1_Witness ==
    /\ worker = "running"
    /\ posted = 2
    /\ writes = << <<1, 2>> >>
    /\ timers = 0

\* C2: at most one stream.write is outstanding, and only under the flag.
C2_SingleOutstandingWrite ==
    /\ Len(inflight) <= 1
    /\ (worker = "running" => (flushing <=> Len(inflight) = 1))

\* A write of two lines is in flight, a third line arrived meanwhile, and
\* both timers have fired: the second one found the flag set.
C2_Witness ==
    /\ worker = "running"
    /\ Len(inflight) = 1
    /\ Len(writes) = 1
    /\ Len(writes[1]) = 2
    /\ logBuffer # <<>>
    /\ timers = 0

\* C3 (as claimed): once the worker has exited and no write is outstanding,
\* every line that was in logBuffer at shutdown is in the sink.
C3_ShutdownDrain ==
    (worker = "exited" /\ inflight = <<>>) =>
        \A i \in 1..Len(atShutdown) : Contains(sink, atShutdown[i][1])

\* C4 (as claimed): after a failed write the batch is not in the sink, the
\* failure has been reported, and the worker has not been terminated by it.
C4_WriteFailureSurvived ==
    (failed # <<>> /\ worker # "erroring") =>
        /\ \A i \in 1..Len(failed) : \A j \in 1..Len(failed[i]) :
               ~Contains(sink, failed[i][j])
        /\ console # <<>>
        /\ worker # "crashed"

\* C10: write(log) never throws and is never blocked, whatever the state of
\* the worker; every line also reaches the sibling target; a crash of the
\* worker is on the console.
C10_FailureIsolation ==
    /\ ~callerFailed
    /\ siblings = [k \in 1..posted |-> LogLine(k)]
    /\ (posted < MaxLogs => ENABLED Dispatch)
    /\ (worker = "crashed" =>
            /\ \E i \in 1..Len(console) : console[i] = "Worker encountered an error"
            /\ \E i \in 1..Len(console) : console[i] = "Worker stopped with exit code 1")

\* The worker has crashed and a line was written to the handle afterwards:
\* it never reached the worker, and it did reach the sibling.
C10_Witness ==
    /\ worker = "crashed"
    /\ console # <<>>
    /\ Len(channel) + Received + Len(Join(failed)) < posted
    /\ Len(siblings) = posted

\* ---------------------------------------------------------- validator claims

\* The required fields that are no property of the metadata, in schema order.
MissingFrom(required, metadata) == SelectSeq(required, LAMBDA field : field \notin metadata.keys)

\* The field names an error message lists after its five-part heading.
NamesOf(message) == SelectSeq(SubSeq(message, 6, Len(message)), LAMBDA part : part # ", ")

IsObjectValue(v) == v.kind \in {"object", "array"}

\* C5: with a non-empty required list R and an object as metadata, validation
\* fails iff some field of R is no key of the metadata, and the error then
\* names exactly the missing fields of R, in schema order.
C5_MissingFieldsNamed ==
    vcall.called =>
        LET R == RequiredFields(vcall.loggerKey, vcall.method, schema)
            m == vcall.metadata
        IN  (Len(R) > 0 /\ IsObjectValue(m)) =>
                /\ vcall.out.threw <=> (\E i \in 1..Len(R) : R[i] \notin m.keys)
                /\ vcall.out.threw => NamesOf(vcall.out.message) = MissingFrom(R, m)
                /\ vcall.outFields.threw <=> vcall.out.threw
                /\ vcall.outFields.threw => NamesOf(vcall.outFields.message) = MissingFrom(R, m)

\* An object holding one of three required fields was rejected, and the error
\* names the two others.
C5_Witness ==
    /\ vcall.called
    /\ vcall.metadata = Value("object", {"code"})
    /\ vcall.out.threw
    /\ NamesOf(vcall.out.message) = <<"userId", "context">>

\* C6: with a non-empty required list and metadata that is absent or no
\* object, validation fails and the error lists every required field.
C6_NonObjectRejected ==
    vcall.called =>
        LET R == RequiredFields(vcall.loggerKey, vcall.method, schema)
        IN  (Len(R) > 0 /\ ~IsObjectValue(vcall.metadata)) =>
                /\ vcall.out.threw
                /\ NamesOf(vcall.out.message) = R
                /\ vcall.outFields.threw
                /\ NamesOf(vcall.outFields.message) = R

\* systemLogger.debug("Server started") under a schema that requires a field
\* for debug.
C6_Witness ==
    /\ vcall.called
    /\ vcall.loggerKey = "systemLogger"
    /\ vcall.method = "debug"
    /\ vcall.metadata.kind = "string"
    /\ vcall.out.threw
    /\ NamesOf(vcall.out.message) = <<"code">>

\* C7: with an empty or unspecified required list, validation succeeds for
\* every metadata value.
C7_NothingRequired ==
    (vcall.called /\ RequiredFields(vcall.loggerKey, vcall.method, schema) = <<>>) =>
        (~vcall.out.threw /\ ~vcall.outFields.threw)

\* A logger key the schema does not have, called without metadata.
C7_Witness ==
    /\ vcall.called
    /\ vcall.loggerKey \notin DOMAIN schema
    /\ vcall.metadata.kind = "undefined"
    /\ ~vcall.out.threw

\* ------------------------------------------------------------- logger claims

\* C8: a call of a wrapped level method whose validation fails throws and
\* invokes nothing (no file receives an entry); a call whose validation
\* succeeds invokes the underlying method exactly once, with its arguments.
C8_ValidationGate ==
    [][ (callCount' = callCount + 1) =>
            LET c == lastCall'
                v == ValidateMetadata(c.loggerKey, c.method, schema, c.metadata)
            IN  IF v.threw
                THEN /\ c.threw
                     /\ c.message = v.message
                     /\ pinoCalls' = pinoCalls
                     /\ files' = files
                ELSE /\ ~c.threw
                     /\ pinoCalls' = Append(pinoCalls,
                            [loggerKey |-> c.loggerKey, method |-> c.method,
                             metadata |-> c.metadata])
      ]_vars

\* One call went through and the next one threw.
C8_Witness ==
    /\ callCount = 2
    /\ Len(pinoCalls) = 1
    /\ lastCall.threw

InFile(destination, id) ==
    \E j \in 1..Len(files[destination]) : files[destination][j].id = id

\* C9: an entry of level L is in the file of a target of minimum level M iff
\* M <= L: an error entry is in the error, warn and info files, a warn entry
\* in the warn and info files, an info entry in the info file only.
C9_LevelRouting ==
    \A i \in 1..Len(pinoCalls) :
        LET c == pinoCalls[i]
            targets == FileTargets(schema[c.loggerKey].category, CreatedOn)
            IsIn(k) == InFile(targets[k].destination, i)
        IN  /\ \A k \in 1..3 :
                   IsIn(k) <=> LevelVal[targets[k].level] <= LevelVal[c.method]
            /\ c.method = "error" => IsIn(1) /\ IsIn(2) /\ IsIn(3)
            /\ c.method = "warn" => ~IsIn(1) /\ IsIn(2) /\ IsIn(3)
            /\ c.method = "info" => ~IsIn(1) /\ ~IsIn(2) /\ IsIn(3)

\* An error entry and an info entry of one logger have been written.
C9_Witness ==
    /\ Len(pinoCalls) = 2
    /\ pinoCalls[1].method = "error"
    /\ pinoCalls[2].method = "info"
    /\ pinoCalls[1].loggerKey = pinoCalls[2].loggerKey
    /\ \E d \in DOMAIN files : Len(files[d]) = 2
    /\ \E d \in DOMAIN files : Len(files[d]) = 1

\* ---------------------------------------------------------- redaction claims

\* C11: redaction is idempotent: redacting an already redacted entry with the
\* same paths leaves it unchanged.
C11_RedactionIdempotent ==
    rcall.called => rcall.twice = rcall.once

\* An entry whose secretKey and user.password were both replaced, and which
\* the second redaction left as it was.
C11_Witness ==
    /\ rcall.called
    /\ rcall.paths = << <<"secretKey">>, <<"user", "password">> >>
    /\ rcall.entry = Obj([secretKey |-> Scalar("cscdcsdwq3453"),
                          user |-> Obj([userId |-> Scalar("42"), password |-> Scalar("1234")])])
    /\ rcall.once = Obj([secretKey |-> Scalar("[Redacted]"),
                         user |-> Obj([userId |-> Scalar("42"),
                                       password |-> Scalar("[Redacted]")])])
    /\ rcall.twice = rcall.once

\* The key paths of a value: <<>> and every sequence of keys leading into it.
RECURSIVE KeyPaths(_)
KeyPaths(value) ==
    IF ~value.isObject THEN {<<>>}
    ELSE {<<>>} \cup UNION {{<<k>> \o q : q \in KeyPaths(value.members[k])} :
                               k \in DOMAIN value.members}

\* The value at a key path of a value.
RECURSIVE ValueAt(_, _)
ValueAt(value, path) ==
    IF path = <<>> THEN value ELSE ValueAt(value.members[Head(path)], Tail(path))

IsPrefix(p, q) == Len(p) <= Len(q) /\ SubSeq(q, 1, Len(p)) = p

\* C12: every configured path that is present in the entry ends, in the
\* result, at the sentinel (at the path itself or at a configured path above
\* it); no key is added; every field no configured path names is unchanged.
C12_RedactionResult ==
    rcall.called =>
        LET e == rcall.entry
            o == rcall.once
            P == {rcall.paths[i] : i \in 1..Len(rcall.paths)}
        IN  /\ \A p \in P :
                   p \in KeyPaths(e) =>
                       \E n \in 1..Len(p) :
                           /\ SubSeq(p, 1, n) \in P
                           /\ SubSeq(p, 1, n) \in KeyPaths(o)
                           /\ ValueAt(o, SubSeq(p, 1, n)) = Scalar("[Redacted]")
            /\ KeyPaths(o) \subseteq KeyPaths(e)
            /\ \A q \in KeyPaths(e) :
                   (\A p \in P : ~IsPrefix(p, q) /\ ~IsPrefix(q, p)) =>
                       q \in KeyPaths(o) /\ ValueAt(o, q) = ValueAt(e, q)

\* secretKey is present and replaced; user.password is configured and absent
\* from the user object, which is unchanged.
C12_Witness ==
    /\ rcall.called
    /\ rcall.paths = << <<"secretKey">>, <<"user", "password">> >>
    /\ rcall.entry = Obj([code |-> Scalar("USER_DATA_ACCESS"),
                          secretKey |-> Scalar("cscdcsdwq3453"),
                          user |-> Obj([userId |-> Scalar("42")])])
    /\ rcall.once = Obj([code |-> Scalar("USER_DATA_ACCESS"),
                         secretKey |-> Scalar("[Redacted]"),
                         user |-> Obj([userId |-> Scalar("42")])])

\* ------------------------------------------------------ retention, rotation

\* The rotation numbers of the files of `kept`, in order.
RotationsOf(kept) == [i \in 1..Len(kept) |-> kept[i].rotation]

\* The numbers from..to in increasing order.
Range(from, to) == [i \in 1..(to - from + 1) |-> from + i - 1]

\* C13: with maxFiles M the stream never keeps more than M backups; once
\* more than M rotations have happened exactly M backups remain, they are
\* the M newest rotations, and the evicted ones are the oldest, removed in
\* rotation order.
C13_Retention ==
    LET M == workerData.limit
    IN  M # Undefined =>
            /\ Len(backups) <= M
            /\ (rotations > M => Len(backups) = M)
            /\ RotationsOf(backups) = Range(rotations - Len(backups) + 1, rotations)
            /\ RotationsOf(evicted) = Range(1, rotations - Len(backups))

C13_Witness ==
    /\ workerData.limit = 2
    /\ rotations = 3
    /\ RotationsOf(backups) = <<2, 3>>
    /\ RotationsOf(evicted) = <<1>>

\* The size threshold the stream rotates at.
Threshold == IF workerData.size # Undefined THEN workerData.size ELSE DefaultSize

\* C14: once the payloads written add up to more than the size threshold K,
\* the stream has rotated at least once, every backup produced is
\* compressed, and the fresh active file holds fewer than K bytes.
C14_Rotation ==
    written > Threshold =>
        /\ rotations >= 1
        /\ Len(evicted) + Len(backups) = rotations
        /\ \A i \in 1..Len(backups) : backups[i].compressed
        /\ \A i \in 1..Len(evicted) : evicted[i].compressed
        /\ activeSize < Threshold

C14_Witness ==
    /\ workerData.size = Undefined
    /\ written = 1200
    /\ sinkWrites = 2
    /\ rotations = 1
    /\ activeSize = 0
    /\ backups[1].compressed

\* ------------------------------------------------- startup check, factory

\* The document is missing, not an object, an array, or has an entry whose
\* value is not an object or has no category.
Malformed(cfg) ==
    \/ cfg.kind # "object"
    \/ \E i \in 1..Len(cfg.entries) :
          \/ cfg.entries[i].value.kind # "object"
          \/ "category" \notin DOMAIN cfg.entries[i].value

\* The keys of the entries of the document.
KeysOf(cfg) == {cfg.entries[i].key : i \in 1..Len(cfg.entries)}

\* A console.error line.
IsErrorLine(line) == line \in {"error: Error generating loggers",
                               "error: Failed to initialize loggers",
                               "uncaught: Cannot find module"}

SixWrappedMethods ==
    /\ \A loggerKey \in DOMAIN loggers :
          /\ DOMAIN loggers[loggerKey] = {"trace", "debug", "info", "warn", "error", "fatal"}
          /\ \A method \in DOMAIN loggers[loggerKey] :
                loggers[loggerKey][method] = [loggerKey |-> loggerKey, method |-> method]
    /\ fcall.called =>
          fcall.outcome = ValidateMetadata(fcall.loggerKey, fcall.method,
                                           SchemaOf(config), fcall.metadata)

\* A console.warn line of a skipped entry.
IsSkipLine(line) == line = "warn: Skipping invalid logger configuration"

FileLevels == {"error", "warn", "info"}

\* The categories of the loaded schema.
Categories == {schema[k].category : k \in DOMAIN schema}

\* The files of the entries logged so far are the files at `paths`.
WrittenAt(paths) ==
    \A i \in 1..Len(pinoCalls) :
        LET category == schema[pinoCalls[i].loggerKey].category
        IN  \A level \in FileLevels :
                LevelVal[level] <= LevelVal[pinoCalls[i].method] =>
                    /\ paths[category][level] \in DOMAIN files
                    /\ InFile(paths[category][level], i)

\* C17 as stated: the files of every category are
\* ./logs/<category>/<level>/<level>-<date>.log for the levels error, warn
\* and info, and entries are written there.
C17_LevelNamedDirectories ==
    LET paths == [category \in Categories |-> [level \in FileLevels |->
                     Destination(category, level, level, CreatedOn)]]
    IN  /\ DOMAIN files = {paths[c][l] : c \in Categories, l \in FileLevels}
        /\ WrittenAt(paths)

\* The directory of the file target of a level.
DirectoryOf == [error |-> "errors", warn |-> "warnings", info |-> "info"]

\* C17: the files of every category are
\* ./logs/<category>/<directory>/<level>-<date>.log with the directory
\* errors, warnings or info for the level error, warn or info; the file name
\* starts with the level name; entries are written there.
C17_FileLayout ==
    LET paths == [category \in Categories |-> [level \in FileLevels |->
                     Destination(category, DirectoryOf[level], level, CreatedOn)]]
    IN  /\ DOMAIN files = {paths[c][l] : c \in Categories, l \in FileLevels}
        /\ WrittenAt(paths)

C17_Witness ==
    /\ Len(pinoCalls) = 1
    /\ pinoCalls[1].method = "error"
    /\ pinoCalls[1].loggerKey = "systemLogger"
    /\ Len(files[<<"./logs/", "system", "/", "errors", "/", "error", "-", "2024-01-01", ".log">>]) = 1
    /\ Len(files[<<"./logs/", "system", "/", "warnings", "/", "warn", "-", "2024-01-01", ".log">>]) = 1

\* ------------------------------------------------ enqueueing and scheduling

\* The step is the handling of one message by the worker.
MessageHandled == channel # <<>> /\ channel' = Tail(channel)

\* C18: write(log) can be called in every state of the worker and returns
\* having posted one message, the worker untouched; the message handler
\* appends the entry to logBuffer whether or not a write is in flight.
C18_EnqueueNeverBlocks ==
    /\ [](posted < MaxLogs => ENABLED Dispatch)
    /\ [][ /\ (posted' = posted + 1) =>
                 /\ channel' = PostMessage(LogLine(posted'))
                 /\ Len(channel') <= Len(channel) + 1
                 /\ UNCHANGED <<worker, logBuffer, flushing, timers, inflight, sink>>
           /\ MessageHandled => logBuffer' = Append(logBuffer, Head(channel))
         ]_vars

\* The second and third lines were appended while the write of the first
\* was in flight.
C18_Witness ==
    /\ worker = "running"
    /\ flushing
    /\ writes = << <<1>> >>
    /\ inflight = << <<1>> >>
    /\ logBuffer = << <<2>>, <<3>> >>

\* C19 (as claimed): at most one flush timer is pending.
C19_SinglePendingTimer == timers <= 1

\* C20 (as claimed): a timer that fires while a write is in flight changes
\* nothing, and the next message handled after such a fire arms a timer.
C20_SkippedFireRearms ==
    [][ /\ (timers' = timers - 1 /\ flushing) =>
               UNCHANGED <<logBuffer, flushing, inflight, sink, writes>>
        /\ (MessageHandled /\ skipped) => timers' = timers + 1
      ]_vars

\* ------------------------------------------------------------------ liveness

\* C21 (as claimed): every line written to the handle is eventually in the
\* sink, given that messages are delivered, timers fire and writes complete;
\* stated for the behaviours in which the parent stops writing of its own
\* accord, with lines left that it could still write.
C21_EveryEntryWritten ==
    [](posted < MaxLogs) =>
        \A k \in 1..MaxLogs : (posted >= k) ~> Contains(sink, k)

\* ------------------------------------------------------- order, empty flush

\* The lines the worker has taken from its port, in the order it holds them:
\* the payloads written, then the buffer.
Held == Join(writes) \o Join(logBuffer)

\* C22: the payloads handed to stream.write, concatenated, are a prefix of
\* the lines enqueued, in enqueue order; every line enqueued is once in the
\* payloads or else once in logBuffer, never in both and never twice.
C22_OrderPreserved ==
    /\ Held = [k \in 1..Len(Held) |-> k]
    /\ Len(Held) + Len(channel) <= posted
    /\ \A i \in 1..Len(logBuffer) : logBuffer[i] = LogLine(Len(Join(writes)) + i)

\* Two payloads were written and a fourth line is buffered.
C22_Witness ==
    /\ writes = << <<1, 2>>, <<3>> >>
    /\ logBuffer = << <<4>> >>

\* The step is the exit hook of the worker.
HookRuns == worker \in {"running", "erroring"} /\ worker' \in {"crashed", "exited"}

\* C23: no payload is empty; a timer or an exit hook that finds logBuffer
\* empty writes nothing and leaves the flag as it is: a clear flag stays
\* clear.
C23_NoEmptyPayload ==
    [][ /\ \A i \in 1..Len(writes') : writes'[i] # <<>>
        /\ ((timers' = timers - 1 \/ HookRuns) /\ logBuffer = <<>>) =>
               /\ writes' = writes
               /\ inflight' = inflight
               /\ flushing' = flushing
      ]_vars

\* The exit hook found the buffer empty after the only line was written.
C23_Witness ==
    /\ worker = "exited"
    /\ atShutdown = <<>>
    /\ writes = << <<1>> >>
    /\ sink = <<1>>
    /\ ~flushing

\* --------------------------------------------------------------- daily files

\* C24 (as claimed): an entry that passes validation is appended to the
\* files of its category and levels that are named for the date of the call.
C24_FileOfCurrentDate ==
    [][ (Len(pinoCalls') = Len(pinoCalls) + 1) =>
            LET c == pinoCalls'[Len(pinoCalls')]
                category == schema[c.loggerKey].category
            IN  \A level \in FileLevels :
                    LevelVal[level] <= LevelVal[c.method] =>
                        LET d == Destination(category, DirectoryOf[level], level, today)
                        IN  /\ d \in DOMAIN files'
                            /\ d \in DOMAIN files
                            /\ Len(files'[d]) = Len(files[d]) + 1
      ]_vars

\* ------------------------------------------------------------ worker failure

\* The lines the worker held or was sent that are not in the file.
Lost == {k \in 1..posted : ~Contains(sink, k)}

\* The console lines of worker.on("error") and worker.on("exit").
EventLines == {"Worker encountered an error", "Worker stopped with exit code 1"}

\* C25 (as claimed): once the worker has failed, the error event is on the
\* parent's console and, if lines were lost with it, so is a line for the
\* loss.
C25_FailureAndLossLogged ==
    (worker = "crashed" /\ inflight = <<>>) =>
        /\ \E i \in 1..Len(console) : console[i] = "Worker encountered an error"
        /\ (Lost # {} => \E i \in 1..Len(console) : console[i] \notin EventLines)

\* ---------------------------------------------------------------- categories

\* C26 (as claimed): once the loggers are exported every logger's category
\* is one of logsCategory, and no entry of the document has another one.
C26_KnownCategories ==
    phase = "ready" =>
        /\ \A loggerKey \in DOMAIN loggers :
              SchemaOf(config)[loggerKey].category \in LogsCategory
        /\ \A i \in 1..Len(config.entries) :
              config.entries[i].value.category \in LogsCategory

\* --------------------------------------------------------------- middlewares

\* C27 (as claimed): when errorLogger has ended, it has passed the error to
\* next(err) exactly once and err.logger holds no descriptor.
C27_ErrorAlwaysPassedOn ==
    errOutcome # "pending" => (nextCalls = 1 /\ IsFalsy(errLogger))

\* The entries logged by the wrapped res.send.
ResponseEntries == SelectSeq(pinoCalls, LAMBDA c : c.method = "info")

\* C28 (as claimed): the descriptor of a response is logged at most once,
\* res.logger holds no descriptor after a send, and every body sent has
\* been handed to the original send.
C28_LoggedOnceAlwaysForwarded ==
    /\ Len(ResponseEntries) <= 1
    /\ (sendOutcomes # <<>> => IsFalsy(resLogger))
    /\ sent = [i \in 1..Len(sendOutcomes) |-> i]

\* ------------------------------------------------- validation below the level

\* Some required field of the call is missing from its metadata.
LacksRequired(c) ==
    LET required == RequiredFields(c.loggerKey, c.method, schema)
    IN  IF IsObjectValue(c.metadata)
        THEN MissingFrom(required, c.metadata) # <<>>
        ELSE required # <<>>

\* C29: a trace or debug call throws iff a required field is missing, as
\* every other level does, although the logger's level is debug; a trace or
\* debug call that passes validation reaches the original method and its
\* entry is in no file.
C29_ValidatedBelowThreshold ==
    /\ (callCount > 0 /\ lastCall.method \in {"trace", "debug"}) =>
           (lastCall.threw <=> LacksRequired(lastCall))
    /\ \A i \in 1..Len(pinoCalls) :
           pinoCalls[i].method \in {"trace", "debug"} =>
               \A d \in DOMAIN files : ~InFile(d, i)

\* A debug call passed validation and wrote to no file; the trace call after
\* it lacked a required field and threw.
C29_Witness ==
    /\ callCount = 2
    /\ Len(pinoCalls) = 1
    /\ pinoCalls[1].method = "debug"
    /\ pinoCalls[1].metadata.keys = {"code", "context"}
    /\ lastCall.method = "trace"
    /\ lastCall.loggerKey = "systemLogger"
    /\ lastCall.threw
    /\ \A d \in DOMAIN files : files[d] = <<>>

\* ------------------------------------------------------------------- purity

====
